---- MODULE Spec2Model ----
(***************************************************************************)
(* Model of the terraform-buildkite-plugin core: the partition function,   *)
(* the working-directory resolver (Working.Parse), on its own and in each  *)
(* of the parallel job shards, the configuration loader (LoadPlugin), the  *)
(* adapter conversions (ToValidators, ToOutputers), the per-directory      *)
(* orchestrator (init -> plan -> show -> validate -> apply) and the        *)
(* execution handler (Handle) that loops over the resolved directories.    *)
(*                                                                         *)
(* Conventions.  A Go pointer or other optional value is a sequence of     *)
(* length 0 (nil) or 1 (the value).  A path is the sequence of its         *)
(* segments, so the empty string is <<>> and path.Join appends a segment.  *)
(* A Go run-time panic (nil dereference, slice out of range) is an         *)
(* explicit outcome, never hidden.                                         *)
(***************************************************************************)
EXTENDS Integers, Sequences, FiniteSets, TLC

VARIABLES
    \* ---- partition, applied by each of the parallel job shards
    pItems,      \* the input sequence every shard is given
    pJobCount,   \* the job count every shard is given
    shards,      \* job index -> <<>> (not computed) or <<result of partition>>
    \* ---- Working.Parse
    working,     \* the *Working receiver: <<>> (nil) or <<struct>>
    listing,     \* the file system under the parent directory
    parsed,      \* <<>> before the call, <<result of Parse>> after it
    \* ---- Working.Parse in each of the parallel job shards
    shardCount,  \* BUILDKITE_PARALLEL_JOB_COUNT, the same in every shard
    resolved,    \* job index -> <<>> (not run) or <<result of that shard's Parse>>
    \* ---- LoadPlugin
    pluginsEnv,  \* BUILDKITE_PLUGINS: <<>> (unset) or <<its text>>
    parallelEnv, \* BUILDKITE_PARALLEL_JOB and BUILDKITE_PARALLEL_JOB_COUNT
    calls,       \* the LoadPlugin calls made so far, each with what it matched
    \* ---- ToValidators and ToOutputers
    validations,  \* the Validations receiver: its list of Validation structs
    outputs,      \* the Outputs receiver: its list of Output structs
    validatorsOut, \* <<>> before the call, <<result of ToValidators>> after it
    outputersOut,  \* <<>> before the call, <<result of ToOutputers>> after it
    \* ---- Handle and the orchestrator
    env,         \* what Handle finds: initiator outcome, test mode, terraform lookup
    plugin,      \* the loaded Plugin: mode and validators
    pc,          \* position of Handle
    dirs,        \* payload.WorkingDirectories
    idx,         \* 1-based position of the range loop over dirs
    failures,    \* the failures slice of Handle
    exit,        \* the (ExitStatus, error) pair Handle returned, <<>> before
    orch,        \* the orchestrator: <<>> or <<[tExecPath, lookups]>>
    run,         \* the orchestrator.Run call in progress
    trace,       \* external calls made by the current Run, in order
    runLog       \* every Run call Handle made, in order, with its outcome

pvars == <<pItems, pJobCount, shards>>
wvars == <<working, listing, parsed>>
svars == <<shardCount, resolved>>
lvars == <<pluginsEnv, parallelEnv, calls>>
avars == <<validations, outputs, validatorsOut, outputersOut>>
hvars == <<env, plugin, pc, dirs, idx, failures, exit, orch, run, trace, runLog>>
vars == <<pItems, pJobCount, shards, working, listing, parsed, shardCount, resolved,
          pluginsEnv, parallelEnv, calls,
          validations, outputs, validatorsOut, outputersOut,
          env, plugin, pc, dirs, idx, failures, exit, orch, run, trace, runLog>>

(***************************************************************************)
(* Bounds of the model.                                                    *)
(***************************************************************************)
MaxItems == 4        \* longest sequence given to partition
MaxJobs == 3         \* largest job count / job index tried
MaxEntries == 3      \* longest directory listing
MaxValidators == 3   \* most validators configured
MaxPlugins == 2      \* longest array in BUILDKITE_PLUGINS
MaxCalls == 2        \* LoadPlugin calls made on the same environment
MaxOutputs == 2      \* most outputs configured

(***************************************************************************)
(* Optional values.                                                        *)
(***************************************************************************)
None == <<>>
Some(x) == <<x>>
IsNil(p) == Len(p) = 0
Deref(p) == p[1]

RECURSIVE Concat(_)
Concat(ss) == IF Len(ss) = 0 THEN <<>> ELSE Head(ss) \o Concat(Tail(ss))

(***************************************************************************)
(* partition: the contiguous chunk of items of job jobIndex out of         *)
(* jobCount.  items[start : start+sz] panics in Go when the bounds do not  *)
(* satisfy 0 <= start <= end <= len.                                       *)
(***************************************************************************)
Slice(items, start, end) ==
    IF 0 <= start /\ start <= end /\ end <= Len(items)
    THEN [panic |-> FALSE, out |-> SubSeq(items, start + 1, end)]
    ELSE [panic |-> TRUE, out |-> <<>>]

\* a start offset that forgets the extra items of the earlier jobs
partitionStartNoExtra(jobIndex, baseSize, extra) == jobIndex * baseSize

partitionStart(jobIndex, baseSize, extra) ==
    IF jobIndex < extra
    THEN jobIndex * (baseSize + 1)
    ELSE extra * (baseSize + 1) + (jobIndex - extra) * baseSize

\* a size that gives every job the base size
partitionSizeBase(jobIndex, baseSize, extra) == baseSize

partitionSize(jobIndex, baseSize, extra) ==
    IF jobIndex < extra THEN baseSize + 1 ELSE baseSize

\* a guard that lets jobIndex = jobCount through
partitionGuardOffByOne(jobIndex, jobCount) ==
    jobCount <= 0 \/ jobIndex < 0 \/ jobIndex > jobCount

partitionGuard(jobIndex, jobCount) ==
    jobCount <= 0 \/ jobIndex < 0 \/ jobIndex >= jobCount

partition(items, jobIndex, jobCount) ==
    IF partitionGuard(jobIndex, jobCount)
    THEN [panic |-> FALSE, out |-> <<>>]
    ELSE LET length == Len(items)
             baseSize == length \div jobCount
             extra == length % jobCount
             start == partitionStart(jobIndex, baseSize, extra)
             sz == partitionSize(jobIndex, baseSize, extra)
         IN Slice(items, start, start + sz)

(***************************************************************************)
(* The job shards: every parallel job calls partition with the same items  *)
(* and job count and its own job index.  Indexes outside 0..jobCount-1 and *)
(* job counts <= 0 are tried as well.                                      *)
(***************************************************************************)
JobIndexes == -1 .. MaxJobs
JobCounts == -1 .. MaxJobs
ItemLists == {[k \in 1 .. n |-> k] : n \in 0 .. MaxItems}

PartitionInit ==
    /\ pItems \in ItemLists
    /\ pJobCount \in JobCounts
    /\ shards = [i \in JobIndexes |-> None]

PartitionJob(i) ==
    /\ IsNil(shards[i])
    /\ shards' = [shards EXCEPT ![i] = Some(partition(pItems, i, pJobCount))]
    /\ UNCHANGED <<pItems, pJobCount>>

(***************************************************************************)
(* The working-directory resolver.                                         *)
(***************************************************************************)
ParentPath == <<"tmp", "t">>
Join(path, name) == Append(path, name)

\* os.ReadDir returns the entries sorted by file name.
Fixture == <<[name |-> "blue", isDir |-> TRUE],
             [name |-> "green", isDir |-> TRUE],
             [name |-> "notes.txt", isDir |-> FALSE],
             [name |-> "red", isDir |-> TRUE],
             [name |-> "white", isDir |-> TRUE]>>

Regexes == {"", ".*", "^(blue|green)$", "("}
RegexCompiles(re) == re # "("
MatchString(re, name) ==
    CASE re = "" -> TRUE
      [] re = ".*" -> TRUE
      [] re = "^(blue|green)$" -> name \in {"blue", "green"}
      [] OTHER -> FALSE

Ok(ds) == [kind |-> "ok", dirs |-> ds, err |-> ""]
Err(msg) == [kind |-> "error", dirs |-> <<>>, err |-> msg]
Panic == [kind |-> "panic", dirs |-> <<>>, err |-> ""]

RECURSIVE keepDirs(_, _, _)
keepDirs(entries, path, nameRegex) ==
    IF Len(entries) = 0 THEN <<>>
    ELSE LET entry == Head(entries)
             rest == keepDirs(Tail(entries), path, nameRegex)
         IN IF ~entry.isDir THEN rest
            ELSE IF ~MatchString(nameRegex, entry.name) THEN rest
            ELSE <<Join(path, entry.name)>> \o rest

listDirs(path, nameRegex, fs) ==
    IF ~RegexCompiles(nameRegex) THEN Err("error parsing regexp")
    ELSE IF path # ParentPath \/ fs.readErr THEN Err("failed to read directory")
    ELSE Ok(keepDirs(fs.entries, path, nameRegex))

\* a resolver for which an artifact holds no directories
handleWorkingDirectoriesNoArtifactError(w, fs) ==
    IF IsNil(w) THEN Err("working directories configuration is nil")
    ELSE IF Deref(w).ParentDirectory # <<>>
         THEN listDirs(Deref(w).ParentDirectory, Deref(w).NameRegex, fs)
    ELSE IF Deref(w).Artifact # ""
         THEN Ok(<<>>)
    ELSE Err("no valid working directory configuration found")

handleWorkingDirectories(w, fs) ==
    IF IsNil(w) THEN Err("working directories configuration is nil")
    ELSE IF Deref(w).ParentDirectory # <<>>
         THEN listDirs(Deref(w).ParentDirectory, Deref(w).NameRegex, fs)
    ELSE IF Deref(w).Artifact # ""
         THEN Err("artifact handling not implemented yet")
    ELSE Err("no valid working directory configuration found")

\* a resolver that passes job count and job index to partition in the wrong order
shardDirsSwapped(directories, par) ==
    IF IsNil(par.ParallelJob) \/ IsNil(par.ParallelJobCount) THEN Panic
    ELSE LET r == partition(directories, Deref(par.ParallelJobCount),
                            Deref(par.ParallelJob))
         IN IF r.panic THEN Panic ELSE Ok(r.out)

\* a resolver that gives every shard the whole list
shardDirsWhole(directories, par) ==
    IF IsNil(par.ParallelJob) \/ IsNil(par.ParallelJobCount) THEN Panic
    ELSE Ok(directories)

\* partition(directories, *w.Parallelism.ParallelJob, *w.Parallelism.ParallelJobCount)
shardDirs(directories, par) ==
    IF IsNil(par.ParallelJob) \/ IsNil(par.ParallelJobCount) THEN Panic
    ELSE LET r == partition(directories, Deref(par.ParallelJob),
                            Deref(par.ParallelJobCount))
         IN IF r.panic THEN Panic ELSE Ok(r.out)

singleDirectory(w) == ~IsNil(w.Directory) /\ Deref(w.Directory) # <<>>

WorkingParse(w, fs) ==
    IF IsNil(w) THEN Ok(<<>>)
    ELSE IF singleDirectory(Deref(w)) THEN Ok(<<Deref(Deref(w).Directory)>>)
    ELSE IF ~IsNil(Deref(w).Directories)
         THEN LET directories == handleWorkingDirectories(Deref(w).Directories, fs)
              IN IF directories.kind # "ok" THEN directories
                 ELSE IF ~IsNil(Deref(w).Parallelism)
                      THEN shardDirs(directories.dirs, Deref(Deref(w).Parallelism))
                 ELSE directories
    ELSE Err("no valid working directory configuration found")

OptInts == {None} \cup {Some(k) : k \in JobCounts}
ParallelismSpecs ==
    {None} \cup {Some([ParallelJob |-> j, ParallelJobCount |-> c]) :
                    j \in OptInts, c \in OptInts}
DirectoriesSpecs ==
    {None} \cup {Some([ParentDirectory |-> p, Artifact |-> a, NameRegex |-> r]) :
                    p \in {<<>>, ParentPath}, a \in {"", "plans.tgz"}, r \in Regexes}
DirectorySpecs == {None, Some(<<>>), Some(<<"tmp", "single">>)}
WorkingSpecs ==
    {None} \cup {Some([Directory |-> d, Directories |-> ds, Parallelism |-> par]) :
                    d \in DirectorySpecs, ds \in DirectoriesSpecs,
                    par \in ParallelismSpecs}
Listings ==
    {[readErr |-> TRUE, entries |-> <<>>]} \cup
    {[readErr |-> FALSE, entries |-> SubSeq(Fixture, 1, k)] : k \in 0 .. MaxEntries}

ParseInit ==
    /\ working \in WorkingSpecs
    /\ listing \in Listings
    /\ parsed = None

ParseCall ==
    /\ IsNil(parsed)
    /\ parsed' = Some(WorkingParse(working, listing))
    /\ UNCHANGED <<working, listing>>

(***************************************************************************)
(* The configuration loader (LoadPlugin).                                  *)
(*                                                                         *)
(* A plugin reference is the sequence of the pieces it is written with     *)
(* (scheme, host, path segments, name, version), so that url.Parse,        *)
(* path.Split and strings.HasPrefix have something to compute on.  A       *)
(* member of a JSON object is <<>> when the key is absent; where null is   *)
(* modelled the member is <<<<>>>> for null and <<<<v>>>> for the value v. *)
(***************************************************************************)
Modes == {"plan", "apply"}
PluginName == <<"terraform-buildkite-plugin">>

Keys ==
    {<<"github.com/", "org/", "terraform-buildkite-plugin", "#v0.0.1">>,
     <<"https://", "github.com/", "org/", "terraform-buildkite-plugin", "-extra",
       "#v0.0.1">>,
     <<"github.com/", "org/", "other-plugin", "#v0.0.1">>,
     <<"terraform-buildkite-plugin">>,
     <<"terraform-buildkite-plugin", "%zz">>}

HasPrefix(s, prefix) ==
    Len(s) >= Len(prefix) /\ SubSeq(s, 1, Len(prefix)) = prefix
Contains(s, piece) == \E i \in 1 .. Len(s) : s[i] = piece

\* url.Parse: an invalid escape is an error; the fragment is cut off at '#';
\* after a scheme comes the host, and what follows the host is the path.
urlParse(ref) ==
    LET marks == {i \in 1 .. Len(ref) : ref[i] = "#v0.0.1"}
        cut == IF marks = {} THEN ref
               ELSE SubSeq(ref, 1, (CHOOSE i \in marks : \A j \in marks : i <= j) - 1)
    IN IF Contains(ref, "%zz") THEN [err |-> TRUE, Path |-> <<>>]
       ELSE IF Len(cut) > 0 /\ cut[1] = "https://"
            THEN [err |-> FALSE, Path |-> SubSeq(cut, 3, Len(cut))]
       ELSE [err |-> FALSE, Path |-> cut]

\* the file part of path.Split: what follows the last slash
pathSplit(p) ==
    LET slashes == {i \in 1 .. Len(p) : p[i] \in {"github.com/", "org/"}}
    IN IF slashes = {} THEN p
       ELSE SubSeq(p, (CHOOSE i \in slashes : \A j \in slashes : i >= j) + 1, Len(p))

getPluginName(s) ==
    LET ref == IF HasPrefix(s, <<"github.com/">>) /\ ~Contains(s, "https://")
               THEN <<"https://">> \o s ELSE s
        u == urlParse(ref)
    IN IF u.err THEN s ELSE pathSplit(u.Path)

\* The text of BUILDKITE_PLUGINS: the empty string, text that is not JSON, or a
\* JSON array of objects; an entry is the set of its key/fragment pairs.
EmptyText == [kind |-> "empty", entries |-> <<>>]
NotJson == [kind |-> "not-json", entries |-> <<>>]
Array(es) == [kind |-> "array", entries |-> es]

\* common.FetchEnv(c.pluginsEnv, "")
FetchEnv(value, fallback) == IF IsNil(value) THEN fallback ELSE Deref(value)

unmarshalPlugins(data) ==
    IF data.kind # "array" THEN [pluginConfigs |-> <<>>, err |-> "failed to parse plugin configuration"]
    ELSE [pluginConfigs |-> data.entries, err |-> ""]

Found(f) == [fragment |-> Some(f), err |-> ""]
NotFound == [fragment |-> None, err |-> "could not initialize plugin"]

\* The outcomes findRawPlugin can have: the array is walked in order, the keys of
\* one entry in the order the Go map iteration happens to produce.
RECURSIVE findRawPlugin(_, _)
findRawPlugin(data, pluginName) ==
    IF Len(data) = 0 THEN {NotFound}
    ELSE LET matching == {kv \in Head(data) :
                             HasPrefix(getPluginName(kv.key), pluginName)}
         IN IF matching # {} THEN {Found(kv.fragment) : kv \in matching}
            ELSE findRawPlugin(Tail(data), pluginName)

\* The value of one of the two parallel environment variables.
EnvEmpty == [kind |-> "empty", n |-> 0]
EnvNotANumber == [kind |-> "not-a-number", n |-> 0]
EnvInt(k) == [kind |-> "int", n |-> k]

NoParallelism == [ParallelJob |-> None, ParallelJobCount |-> None]
NoDirectories == [ParentDirectory |-> <<>>, Artifact |-> "", NameRegex |-> ""]
NoWorking == [Directory |-> None, Directories |-> None, Parallelism |-> None]

\* env.Parse(&plugin): the two tagged fields are reached only through the
\* pre-initialised Working.Parallelism; an empty value leaves its field alone.
envParse(e) ==
    IF e.job.kind = "empty" /\ e.count.kind = "empty"
    THEN [plugin |-> Some([Mode |-> "", Working |-> None]), err |-> ""]
    ELSE IF e.job.kind = "not-a-number" \/ e.count.kind = "not-a-number"
         THEN [plugin |-> None, err |-> "failed to parse environment variables"]
    ELSE [plugin |-> Some([Mode |-> "",
                           Working |-> Some([NoWorking EXCEPT !.Parallelism =
                               Some([ParallelJob |-> IF e.job.kind = "int"
                                                     THEN Some(e.job.n) ELSE None,
                                     ParallelJobCount |-> IF e.count.kind = "int"
                                                          THEN Some(e.count.n)
                                                          ELSE None])])]),
          err |-> ""]

\* json.Unmarshal into a field: an absent key leaves the field alone, null sets a
\* pointer to nil, an object is decoded into the struct the pointer already points
\* to (a new zero struct when the pointer is nil).
unmarshalParallelism(cur, m) ==
    IF IsNil(m) THEN cur
    ELSE IF IsNil(Deref(m)) THEN None
    ELSE LET base == IF IsNil(cur) THEN NoParallelism ELSE Deref(cur)
             o == Deref(Deref(m))
         IN Some([ParallelJob |-> IF IsNil(o.parallel_job) THEN base.ParallelJob
                                  ELSE o.parallel_job,
                  ParallelJobCount |-> IF IsNil(o.parallel_job_count)
                                       THEN base.ParallelJobCount
                                       ELSE o.parallel_job_count])

unmarshalDirectories(cur, m) ==
    IF IsNil(m) THEN cur
    ELSE LET base == IF IsNil(cur) THEN NoDirectories ELSE Deref(cur)
             o == Deref(m)
         IN Some([ParentDirectory |-> IF IsNil(o.parent_directory)
                                      THEN base.ParentDirectory
                                      ELSE Deref(o.parent_directory),
                  Artifact |-> IF IsNil(o.artifact) THEN base.Artifact
                               ELSE Deref(o.artifact),
                  NameRegex |-> base.NameRegex])

\* a decoder that always starts from a fresh Working and so drops what was there
unmarshalWorkingFresh(cur, m) ==
    IF IsNil(m) THEN cur
    ELSE IF IsNil(Deref(m)) THEN None
    ELSE LET o == Deref(Deref(m))
         IN Some([Directory |-> o.directory,
                  Directories |-> unmarshalDirectories(None, o.directories),
                  Parallelism |-> unmarshalParallelism(None, o.parallelism)])

unmarshalWorking(cur, m) ==
    IF IsNil(m) THEN cur
    ELSE IF IsNil(Deref(m)) THEN None
    ELSE LET base == IF IsNil(cur) THEN NoWorking ELSE Deref(cur)
             o == Deref(Deref(m))
         IN Some([Directory |-> IF IsNil(o.directory) THEN base.Directory
                                ELSE o.directory,
                  Directories |-> unmarshalDirectories(base.Directories, o.directories),
                  Parallelism |-> unmarshalParallelism(base.Parallelism, o.parallelism)])

\* a decoder in which a value already set from the environment is kept
jsonUnmarshalEnvWins(data, p) ==
    IF data.shape # "object"
    THEN [plugin |-> None, err |-> "failed to parse plugin configuration"]
    ELSE LET w == unmarshalWorking(p.Working, data.working)
         IN [plugin |-> Some([Mode |-> IF IsNil(data.mode) THEN p.Mode
                                       ELSE Deref(data.mode),
                              Working |->
                                  IF IsNil(w) \/ IsNil(p.Working) THEN w
                                  ELSE IF IsNil(Deref(w).Parallelism)
                                          \/ IsNil(Deref(p.Working).Parallelism)
                                       THEN w
                                  ELSE LET was == Deref(Deref(p.Working).Parallelism)
                                           now == Deref(Deref(w).Parallelism)
                                       IN Some([Deref(w) EXCEPT !.Parallelism =
                                            Some([ParallelJob |->
                                                    IF IsNil(was.ParallelJob)
                                                    THEN now.ParallelJob
                                                    ELSE was.ParallelJob,
                                                  ParallelJobCount |->
                                                    IF IsNil(was.ParallelJobCount)
                                                    THEN now.ParallelJobCount
                                                    ELSE was.ParallelJobCount])])]),
             err |-> ""]

\* json.Unmarshal(*data, &plugin)
jsonUnmarshal(data, p) ==
    IF data.shape # "object"
    THEN [plugin |-> None, err |-> "failed to parse plugin configuration"]
    ELSE [plugin |-> Some([Mode |-> IF IsNil(data.mode) THEN p.Mode
                                    ELSE Deref(data.mode),
                           Working |-> unmarshalWorking(p.Working, data.working)]),
          err |-> ""]

parseRawPlugin(data, e) ==
    LET fromEnv == envParse(e)
    IN IF fromEnv.err # "" THEN fromEnv
       ELSE jsonUnmarshal(data, Deref(fromEnv.plugin))

\* What the dir and file tags find on disk.
isDir(path) == path \in {ParentPath, <<"tmp", "single">>}
isFile(name) == name = "plans.tgz"

\* The validator tags.  A field that starts with omitempty and has no value (a nil
\* pointer, an empty string) is not looked at any further, so a tag that follows
\* omitempty only ever sees a field that has a value.
requiredWith(hasValue, otherEmpty) == otherEmpty \/ hasValue
\* a tag that never fails
excludedWithNever(hasValue, otherEmpty) == TRUE
excludedWith(hasValue, otherEmpty) == otherEmpty \/ ~hasValue
\* ltefield: the other field must be an integer too (not a nil pointer)
isLteField(field, other) == ~IsNil(other) /\ Deref(field) <= Deref(other)

failedIf(cond, name) == IF cond THEN {name} ELSE {}

\* The fields of each struct whose tags fail.
validateParallelism(par) ==
    failedIf(~IsNil(par.ParallelJob)
             /\ ~(/\ requiredWith(TRUE, IsNil(par.ParallelJobCount))
                  /\ isLteField(par.ParallelJob, par.ParallelJobCount)),
             "ParallelJob")
    \cup failedIf(~IsNil(par.ParallelJobCount)
                  /\ ~requiredWith(TRUE, IsNil(par.ParallelJob)),
                  "ParallelJobCount")

validateDirectories(d) ==
    failedIf(~(/\ isDir(d.ParentDirectory)
               /\ excludedWith(d.ParentDirectory # <<>>, d.Artifact = "")),
             "ParentDirectory")
    \cup failedIf(d.Artifact # ""
                  /\ ~(/\ isFile(d.Artifact)
                       /\ excludedWith(TRUE, d.ParentDirectory = <<>>)),
                  "Artifact")

validateWorking(w) ==
    failedIf(~IsNil(w.Directory)
             /\ ~(/\ isDir(Deref(w.Directory))
                  /\ excludedWith(TRUE, IsNil(w.Directories))),
             "Directory")
    \cup (IF IsNil(w.Directories) THEN {}
          ELSE IF ~excludedWith(TRUE, IsNil(w.Directory)) THEN {"Directories"}
          ELSE validateDirectories(Deref(w.Directories)))
    \cup (IF IsNil(w.Parallelism) THEN {}
          ELSE validateParallelism(Deref(w.Parallelism)))

validateStruct(p) ==
    failedIf(~(p.Mode # "" /\ p.Mode \in Modes), "Mode")
    \cup (IF IsNil(p.Working) THEN {} ELSE validateWorking(Deref(p.Working)))

validatePlugin(p) ==
    IF validateStruct(p) # {} THEN "failed to validate config" ELSE ""

\* What one LoadPlugin call gives: the fragment it matched (if it got that far),
\* and the (*Plugin, error) pair.
Loaded(f, p) == [matched |-> f, plugin |-> Some(p), err |-> ""]
Failed(f, msg) == [matched |-> f, plugin |-> None, err |-> msg]

\* a loader that decodes the fragment before it reads the environment
loadFoundFragmentFirst(rawPlugin, e) ==
    IF rawPlugin.err # "" THEN Failed(None, rawPlugin.err)
    ELSE IF Deref(rawPlugin.fragment).shape # "object"
         THEN Failed(rawPlugin.fragment, "failed to parse plugin configuration")
    ELSE LET p == parseRawPlugin(Deref(rawPlugin.fragment), e)
         IN IF p.err # "" THEN Failed(rawPlugin.fragment, p.err)
            ELSE IF validatePlugin(Deref(p.plugin)) # ""
                 THEN Failed(rawPlugin.fragment, validatePlugin(Deref(p.plugin)))
            ELSE Loaded(rawPlugin.fragment, Deref(p.plugin))

loadFound(rawPlugin, e) ==
    IF rawPlugin.err # "" THEN Failed(None, rawPlugin.err)
    ELSE LET p == parseRawPlugin(Deref(rawPlugin.fragment), e)
         IN IF p.err # "" THEN Failed(rawPlugin.fragment, p.err)
            ELSE IF validatePlugin(Deref(p.plugin)) # ""
                 THEN Failed(rawPlugin.fragment, validatePlugin(Deref(p.plugin)))
            ELSE Loaded(rawPlugin.fragment, Deref(p.plugin))

\* the outcomes LoadPlugin can have
LoadPlugin(value, e, pluginName) ==
    LET rawPlugins == unmarshalPlugins(FetchEnv(value, EmptyText))
    IN IF rawPlugins.err # "" THEN {Failed(None, rawPlugins.err)}
       ELSE {loadFound(r, e) : r \in findRawPlugin(rawPlugins.pluginConfigs, pluginName)}

\* ---- the inputs tried
OptJobs == {None} \cup {Some(k) : k \in 0 .. MaxJobs}
ParallelismMembers ==
    {None, Some(None)} \cup
    {Some(Some(o)) : o \in [parallel_job : OptJobs, parallel_job_count : OptJobs]}
DirectoriesMembers ==
    {None} \cup
    {Some(o) : o \in [parent_directory : {None, Some(ParentPath)},
                      artifact : {None, Some("plans.tgz")}]}
DirectoryMembers == {None, Some(<<"tmp", "single">>), Some(<<"tmp", "missing">>)}
WorkingMembers ==
    {None, Some(None)} \cup
    {Some(Some(o)) : o \in [directory : DirectoryMembers,
                            directories : DirectoriesMembers,
                            parallelism : ParallelismMembers]}
Mistyped == [shape |-> "mistyped", mode |-> None, working |-> None]
Fragments ==
    {Mistyped} \cup
    [shape : {"object"}, mode : {None, Some("plan"), Some("invalid")},
     working : WorkingMembers]
PlanFragment == [shape |-> "object", mode |-> Some("plan"), working |-> None]
ApplyFragment == [shape |-> "object", mode |-> Some("apply"), working |-> None]

EnvValues == {EnvEmpty, EnvNotANumber} \cup {EnvInt(k) : k \in 0 .. MaxJobs}
NoParallelEnv == [job |-> EnvEmpty, count |-> EnvEmpty]

\* one-key entries, and entries with two keys
OneKeyEntries ==
    {{[key |-> k, fragment |-> f]} : k \in Keys, f \in {PlanFragment, ApplyFragment}}
TwoKeyEntries ==
    {{[key |-> ks[1], fragment |-> PlanFragment],
      [key |-> ks[2], fragment |-> ApplyFragment]} :
        ks \in {pair \in Keys \X Keys : pair[1] # pair[2]}}
RECURSIVE EntryLists(_)
EntryLists(n) ==
    IF n = 0 THEN {<<>>}
    ELSE EntryLists(n - 1) \cup
         {Append(es, x) : es \in {l \in EntryLists(n - 1) : Len(l) = n - 1},
                          x \in OneKeyEntries \cup TwoKeyEntries}
MatchingKey == <<"github.com/", "org/", "terraform-buildkite-plugin", "#v0.0.1">>

LoadInit ==
    /\ \/ /\ pluginsEnv \in {None, Some(EmptyText), Some(NotJson)}
                            \cup {Some(Array(es)) : es \in EntryLists(MaxPlugins)}
          /\ parallelEnv \in {NoParallelEnv, [job |-> EnvNotANumber, count |-> EnvEmpty]}
       \/ /\ pluginsEnv \in {Some(Array(<<{[key |-> MatchingKey, fragment |-> f]}>>)) :
                                f \in Fragments}
          /\ parallelEnv \in [job : EnvValues, count : EnvValues]
    /\ calls = <<>>

LoadPluginCall ==
    /\ Len(calls) < MaxCalls
    /\ \E out \in LoadPlugin(pluginsEnv, parallelEnv, PluginName) :
           calls' = Append(calls, out)
    /\ UNCHANGED <<pluginsEnv, parallelEnv>>

(***************************************************************************)
(* The parallel job shards of one build: every shard is an independent     *)
(* process that loads the same configuration and the same directory        *)
(* listing, with its own BUILDKITE_PARALLEL_JOB, and calls Working.Parse.  *)
(***************************************************************************)
\* the working sections that pass validation, before the job index is filled in
ValidWorkings ==
    {w \in WorkingSpecs \ {None} :
        /\ IsNil(Deref(w).Parallelism)
        /\ validateWorking(Deref(w)) = {}}

ShardWorking(i) ==
    Some([Deref(working) EXCEPT !.Parallelism =
              Some([ParallelJob |-> Some(i), ParallelJobCount |-> Some(shardCount)])])

ShardsInit ==
    /\ working \in ValidWorkings
    /\ listing \in Listings
    /\ parsed = None
    /\ shardCount \in 1 .. MaxJobs
    /\ resolved = [i \in 0 .. shardCount - 1 |-> None]

ShardParse(i) ==
    /\ i \in DOMAIN resolved
    /\ IsNil(resolved[i])
    /\ validateWorking(Deref(ShardWorking(i))) = {}
    /\ resolved' = [resolved EXCEPT ![i] = Some(WorkingParse(ShardWorking(i), listing))]
    /\ UNCHANGED <<working, listing, parsed, shardCount>>


(***************************************************************************)
(* The adapters: Validations.ToValidators and Outputs.ToOutputers.  A      *)
(* Validation or Output struct has one pointer per recognized kind (its    *)
(* discriminants); an adapter is what the constructor was given.           *)
(***************************************************************************)
OpaValidations == {[Bundle |-> "bundle.tar.gz", Query |-> "data.terraform.deny"],
                   [Bundle |-> "bundle.tar.gz", Query |-> "data.terraform.warn"]}
ValidationStructs == {[Opa |-> None]} \cup {[Opa |-> Some(c)] : c \in OpaValidations}

BuildkiteAnnotations == {[Template |-> "plan.md", Context |-> "plan"],
                         [Template |-> "apply.md", Context |-> "apply"]}
OutputStructs ==
    {[BuildkiteAnnotation |-> None]} \cup
    {[BuildkiteAnnotation |-> Some(c)] : c \in BuildkiteAnnotations}

RECURSIVE SeqsUpTo(_, _)
SeqsUpTo(S, n) ==
    IF n = 0 THEN {<<>>}
    ELSE LET shorter == SeqsUpTo(S, n - 1)
         IN shorter \cup {Append(q, x) : q \in shorter, x \in S}

Adapted(result) == [kind |-> "ok", list |-> result, err |-> <<>>]
Unknown(msg, struct) == [kind |-> "error", list |-> <<>>, err |-> <<msg, struct>>]

NewOpaValidatorAdapter(validationConfig, name) ==
    [name |-> name, config |-> Deref(validationConfig)]
NewBuildkiteAnnotator(c) == [config |-> Deref(c)]

\* a conversion that passes over a Validation of no recognized kind
RECURSIVE ToValidatorsSkippingLoop(_, _)
ToValidatorsSkippingLoop(rest, result) ==
    IF rest = <<>> THEN Adapted(result)
    ELSE IF ~IsNil(Head(rest).Opa)
         THEN ToValidatorsSkippingLoop(Tail(rest),
                  Append(result, NewOpaValidatorAdapter(Head(rest).Opa, "opa-validator")))
    ELSE ToValidatorsSkippingLoop(Tail(rest), result)

ToValidatorsSkipping(v) ==
    IF Len(v.Validations) = 0 THEN Adapted(<<>>)
    ELSE ToValidatorsSkippingLoop(v.Validations, <<>>)

\* the range loop of ToValidators: rest is what is left to visit
RECURSIVE ToValidatorsLoop(_, _)
ToValidatorsLoop(rest, result) ==
    IF rest = <<>> THEN Adapted(result)
    ELSE IF ~IsNil(Head(rest).Opa)
         THEN ToValidatorsLoop(Tail(rest),
                  Append(result, NewOpaValidatorAdapter(Head(rest).Opa, "opa-validator")))
    ELSE Unknown("unknown validation type", Head(rest))

ToValidators(v) ==
    IF Len(v.Validations) = 0 THEN Adapted(<<>>)
    ELSE ToValidatorsLoop(v.Validations, <<>>)

\* the range loop of ToOutputers
RECURSIVE ToOutputersLoop(_, _)
ToOutputersLoop(rest, result) ==
    IF rest = <<>> THEN Adapted(result)
    ELSE IF ~IsNil(Head(rest).BuildkiteAnnotation)
         THEN ToOutputersLoop(Tail(rest),
                  Append(result, NewBuildkiteAnnotator(Head(rest).BuildkiteAnnotation)))
    ELSE Unknown("unknown output type", Head(rest))

ToOutputers(o) ==
    IF Len(o.Outputs) = 0 THEN Adapted(<<>>)
    ELSE ToOutputersLoop(o.Outputs, <<>>)

AdaptInit ==
    /\ validations \in SeqsUpTo(ValidationStructs, MaxValidators)
    /\ outputs \in SeqsUpTo(OutputStructs, MaxOutputs)
    /\ validatorsOut = None
    /\ outputersOut = None

ToValidatorsCall ==
    /\ IsNil(validatorsOut)
    /\ validatorsOut' = Some(ToValidators([Validations |-> validations]))
    /\ UNCHANGED <<validations, outputs, outputersOut>>

ToOutputersCall ==
    /\ IsNil(outputersOut)
    /\ outputersOut' = Some(ToOutputers([Outputs |-> outputs]))
    /\ UNCHANGED <<validations, outputs, validatorsOut>>

(***************************************************************************)
(* The orchestrator.  Every call of terraform and of a Validator is an     *)
(* external call whose outcome the model chooses; trace records the calls  *)
(* of the Run in progress.                                                 *)
(***************************************************************************)

WorkspaceResult(success, stage, workingDir, error) ==
    [Success |-> success, Stage |-> stage, WorkingDir |-> workingDir, Error |-> error]

Call(op, arg, out) == [op |-> op, arg |-> arg, out |-> out]

planFileOf(workingDir) == Join(workingDir, "plan.binary")

\* an apply pointed at the directory, which makes terraform derive a fresh plan
applyTargetDir(r) == r.dir

\* tfexec.DirOrPlan(planFile): what terraform apply is pointed at
applyTarget(r) == r.planFile

Idle == [phase |-> "idle", dir |-> <<>>, planFile |-> <<>>, vIdx |-> 0, nFail |-> 0,
         result |-> None]

Returned(r, res) == [r EXCEPT !.phase = "returned", !.result = Some(res)]

\* Run: the switch on the mode, then the first lines of Plan / Apply
RunCall(mode, workingDir) ==
    IF mode \in {"plan", "apply"}
    THEN [phase |-> "init", dir |-> workingDir, planFile |-> planFileOf(workingDir),
          vIdx |-> 0, nFail |-> 0, result |-> None]
    ELSE Returned([Idle EXCEPT !.dir = workingDir],
                  WorkspaceResult(FALSE, "validation", workingDir,
                                  <<"unsupported plugin mode">>))

\* initSteps: newTerraform, then terraform init
initSteps ==
    /\ run.phase = "init"
    /\ \E outcome \in {"no runner", "err", "ok"} :
          CASE outcome = "no runner" ->
                 /\ run' = Returned(run, WorkspaceResult(FALSE, "initialization", run.dir,
                                        <<"failed to initialize Terraform">>))
                 /\ UNCHANGED trace
            [] outcome = "err" ->
                 /\ run' = Returned(run, WorkspaceResult(FALSE, "initialization", run.dir,
                                        <<"failed to run terraform init">>))
                 /\ trace' = Append(trace, Call("init", run.dir, "err"))
            [] outcome = "ok" ->
                 /\ run' = [run EXCEPT !.phase = "plan"]
                 /\ trace' = Append(trace, Call("init", run.dir, "ok"))
    /\ UNCHANGED <<pvars, wvars, svars, lvars, avars, env, plugin, pc, dirs, idx, failures, exit, orch, runLog>>

\* a planSteps without the no-change short cut
afterPlanAlwaysShow(r, hasChanges) == [r EXCEPT !.phase = "show"]

\* planSteps after tf.Plan returned without error: the no-change short cut
afterPlan(r, hasChanges) ==
    IF ~hasChanges
    THEN Returned(r, WorkspaceResult(TRUE, "planning", r.dir,
                     <<"no changes detected in the Terraform plan">>))
    ELSE [r EXCEPT !.phase = "show"]

\* planSteps, first half: terraform plan -out=planFile
planStepsPlan ==
    /\ run.phase = "plan"
    /\ \E outcome \in {"err", "no changes", "changes"} :
          /\ trace' = Append(trace, Call("plan", run.planFile, outcome))
          /\ run' = IF outcome = "err"
                    THEN Returned(run, WorkspaceResult(FALSE, "planning", run.dir,
                                     <<"failed to run terraform plan">>))
                    ELSE afterPlan(run, outcome = "changes")
    /\ UNCHANGED <<pvars, wvars, svars, lvars, avars, env, plugin, pc, dirs, idx, failures, exit, orch, runLog>>

\* planSteps, second half: terraform show of the plan file
planStepsShow ==
    /\ run.phase = "show"
    /\ \E outcome \in {"err", "ok"} :
          /\ trace' = Append(trace, Call("show", run.planFile, outcome))
          /\ run' = IF outcome = "err"
                    THEN Returned(run, WorkspaceResult(FALSE, "showing plan", run.dir,
                                     <<"failed to show plan file">>))
                    ELSE [run EXCEPT !.phase = "validate"]
    /\ UNCHANGED <<pvars, wvars, svars, lvars, avars, env, plugin, pc, dirs, idx, failures, exit, orch, runLog>>

\* a validateSteps that returns at the first validator reporting passed:false
afterValidateFailFast(r, outcome) ==
    IF outcome = "err"
    THEN Returned(r, WorkspaceResult(FALSE, "validation", r.dir, <<"validation failed">>))
    ELSE IF outcome = "fail"
    THEN Returned(r, WorkspaceResult(FALSE, "validation", r.dir,
                     <<"validation failed with %d issues", r.nFail + 1>>))
    ELSE [r EXCEPT !.vIdx = r.vIdx + 1]

\* a validateSteps that counts an execution error as one more issue and goes on
afterValidateErrorCounted(r, outcome) ==
    [r EXCEPT !.vIdx = r.vIdx + 1,
              !.nFail = IF outcome \in {"fail", "err"} THEN r.nFail + 1 ELSE r.nFail]

\* validateSteps, the loop body after validator.Validate returned
afterValidate(r, outcome) ==
    IF outcome = "err"
    THEN Returned(r, WorkspaceResult(FALSE, "validation", r.dir, <<"validation failed">>))
    ELSE [r EXCEPT !.vIdx = r.vIdx + 1,
                   !.nFail = IF outcome = "fail" THEN r.nFail + 1 ELSE r.nFail]

\* validateSteps, one iteration of the loop over o.validators
validateStepsNext ==
    /\ run.phase = "validate"
    /\ run.vIdx < plugin.validators
    /\ \E outcome \in {"err", "pass", "fail"} :
          /\ trace' = Append(trace, Call("validate", <<run.vIdx + 1>>, outcome))
          /\ run' = afterValidate(run, outcome)
    /\ UNCHANGED <<pvars, wvars, svars, lvars, avars, env, plugin, pc, dirs, idx, failures, exit, orch, runLog>>

\* a Plan that goes on to apply as Apply does
afterValidatorsAnyMode(r, mode) ==
    IF r.nFail > 0
    THEN Returned(r, WorkspaceResult(FALSE, "validation", r.dir,
                     <<"validation failed with %d issues", r.nFail>>))
    ELSE [r EXCEPT !.phase = "apply"]

\* validateSteps after the loop, and what Plan / Apply do with its result
afterValidators(r, mode) ==
    IF r.nFail > 0
    THEN Returned(r, WorkspaceResult(FALSE, "validation", r.dir,
                     <<"validation failed with %d issues", r.nFail>>))
    ELSE IF mode = "apply" THEN [r EXCEPT !.phase = "apply"]
    ELSE Returned(r, WorkspaceResult(TRUE, "planning", r.dir, <<>>))

validateStepsEnd ==
    /\ run.phase = "validate"
    /\ run.vIdx >= plugin.validators
    /\ run' = afterValidators(run, plugin.mode)
    /\ UNCHANGED <<pvars, wvars, svars, lvars, avars, env, plugin, pc, dirs, idx, failures, exit, orch, trace, runLog>>

\* an Apply that names the stage of a successful apply as it names a failed one
applyStepOneStageName ==
    /\ run.phase = "apply"
    /\ \E outcome \in {"err", "ok"} :
          /\ trace' = Append(trace, Call("apply", applyTarget(run), outcome))
          /\ run' = IF outcome = "err"
                    THEN Returned(run, WorkspaceResult(FALSE, "applying", run.dir,
                                     <<"failed to apply Terraform plan">>))
                    ELSE Returned(run, WorkspaceResult(TRUE, "applying", run.dir, <<>>))
    /\ UNCHANGED <<pvars, wvars, svars, lvars, avars, env, plugin, pc, dirs, idx, failures, exit, orch, runLog>>

\* Apply: terraform apply of the plan file
applyStep ==
    /\ run.phase = "apply"
    /\ \E outcome \in {"err", "ok"} :
          /\ trace' = Append(trace, Call("apply", applyTarget(run), outcome))
          /\ run' = IF outcome = "err"
                    THEN Returned(run, WorkspaceResult(FALSE, "applying", run.dir,
                                     <<"failed to apply Terraform plan">>))
                    ELSE Returned(run, WorkspaceResult(TRUE, "apply", run.dir, <<>>))
    /\ UNCHANGED <<pvars, wvars, svars, lvars, avars, env, plugin, pc, dirs, idx, failures, exit, orch, runLog>>

(***************************************************************************)
(* The execution handler.                                                  *)
(***************************************************************************)
Success == 0
UnexpectedFailure == 1
HandledFailure == 2
NoWorkingDirectories == 3
TestModeEarlyExit == 10

\* strings.ToLower, on the values tried
ToLower(val) ==
    CASE val = "TRUE" -> "true"
      [] val = "Yes" -> "yes"
      [] OTHER -> val

\* a test that compares the value as it is written
IsTestModeExact(value) == FetchEnv(value, "false") \in {"true", "1", "yes"}

\* common.IsTestMode on the value of BUILDKITE_PLUGIN_<NAME>_TEST_MODE
IsTestMode(value) == ToLower(FetchEnv(value, "false")) \in {"true", "1", "yes"}

TestModeValues == {None, Some("true"), Some("TRUE"), Some("1"), Some("Yes"), Some("on")}

Exit(status, err) == Some([status |-> status, err |-> err, panic |-> FALSE])
Crash == Some([status |-> -1, err |-> "", panic |-> TRUE])

\* which step of ParsePlugin fails first, Working.Parse apart
InitiatorOutcomes == {"ok", "load error", "outputs error", "validations error"}

\* a ParsePlugin that goes on without the adapters it could not construct
ParsePluginLenient(e, w, fs) ==
    IF e.initiator = "load error" THEN Err("failed to load plugin")
    ELSE LET d == WorkingParse(w, fs)
         IN IF d.kind = "error" THEN Err("failed to parse working directories") ELSE d

\* initiatorConfig.ParsePlugin: LoadPlugin, ToOutputers, ToValidators, Working.Parse
ParsePlugin(e, w, fs) ==
    IF e.initiator = "load error" THEN Err("failed to load plugin")
    ELSE IF e.initiator = "outputs error" THEN Err("failed to convert outputs")
    ELSE IF e.initiator = "validations error" THEN Err("failed to convert validations")
    ELSE LET d == WorkingParse(w, fs)
         IN IF d.kind = "error" THEN Err("failed to parse working directories") ELSE d

\* a constructor that leaves the search for the executable to each run
NewOrchestratorDeferred(p, e) ==
    LET configured == IF IsNil(p.execPath) THEN "" ELSE Deref(p.execPath)
        chosen == IF e.handlerExecPath # "" THEN e.handlerExecPath ELSE configured
    IN IF chosen # "" THEN Some([tExecPath |-> chosen, lookups |-> 0])
       ELSE Some([tExecPath |-> "terraform", lookups |-> 0])

\* NewOrchestrator: the configured path, else the handler's, else exec.LookPath
NewOrchestrator(p, e) ==
    LET configured == IF IsNil(p.execPath) THEN "" ELSE Deref(p.execPath)
        chosen == IF e.handlerExecPath # "" THEN e.handlerExecPath ELSE configured
    IN IF chosen # "" THEN Some([tExecPath |-> chosen, lookups |-> 0])
       ELSE IF e.onPath THEN Some([tExecPath |-> "/usr/bin/terraform", lookups |-> 1])
       ELSE None

\* a Handle that constructs the orchestrator before it looks at the directories
HandleStartOrchestratorFirst ==
    /\ pc = "start"
    /\ LET payload == ParsePlugin(env, working, listing)
           o == NewOrchestrator(plugin, env)
       IN CASE payload.kind = "panic" ->
                 /\ exit' = Crash /\ pc' = "done"
                 /\ UNCHANGED <<dirs, orch>>
            [] payload.kind = "error" ->
                 /\ exit' = Exit(UnexpectedFailure, payload.err) /\ pc' = "done"
                 /\ UNCHANGED <<dirs, orch>>
            [] payload.kind = "ok" /\ IsTestMode(env.testMode) ->
                 /\ exit' = Exit(TestModeEarlyExit, "") /\ pc' = "done"
                 /\ dirs' = payload.dirs
                 /\ UNCHANGED orch
            [] payload.kind = "ok" /\ ~IsTestMode(env.testMode) /\ IsNil(o) ->
                 /\ exit' = Exit(UnexpectedFailure, "terraform binary not found in PATH")
                 /\ pc' = "done"
                 /\ dirs' = payload.dirs
                 /\ UNCHANGED orch
            [] payload.kind = "ok" /\ ~IsTestMode(env.testMode) /\ ~IsNil(o)
                    /\ Len(payload.dirs) = 0 ->
                 /\ exit' = Exit(NoWorkingDirectories, "") /\ pc' = "done"
                 /\ dirs' = payload.dirs
                 /\ orch' = o
            [] OTHER ->
                 /\ orch' = o /\ dirs' = payload.dirs /\ pc' = "loop"
                 /\ UNCHANGED exit
    /\ UNCHANGED <<pvars, wvars, svars, lvars, avars, env, plugin, idx, failures, run, trace, runLog>>

\* Handle up to the range loop
HandleStart ==
    /\ pc = "start"
    /\ LET payload == ParsePlugin(env, working, listing)
           o == NewOrchestrator(plugin, env)
       IN CASE payload.kind = "panic" ->
                 /\ exit' = Crash /\ pc' = "done"
                 /\ UNCHANGED <<dirs, orch>>
            [] payload.kind = "error" ->
                 /\ exit' = Exit(UnexpectedFailure, payload.err) /\ pc' = "done"
                 /\ UNCHANGED <<dirs, orch>>
            [] payload.kind = "ok" /\ IsTestMode(env.testMode) ->
                 /\ exit' = Exit(TestModeEarlyExit, "") /\ pc' = "done"
                 /\ dirs' = payload.dirs
                 /\ UNCHANGED orch
            [] payload.kind = "ok" /\ ~IsTestMode(env.testMode) /\ Len(payload.dirs) = 0 ->
                 /\ exit' = Exit(NoWorkingDirectories, "") /\ pc' = "done"
                 /\ dirs' = payload.dirs
                 /\ UNCHANGED orch
            [] payload.kind = "ok" /\ ~IsTestMode(env.testMode) /\ Len(payload.dirs) > 0 /\ IsNil(o) ->
                 /\ exit' = Exit(UnexpectedFailure, "terraform binary not found in PATH")
                 /\ pc' = "done"
                 /\ dirs' = payload.dirs
                 /\ UNCHANGED orch
            [] OTHER ->
                 /\ orch' = o /\ dirs' = payload.dirs /\ pc' = "loop"
                 /\ UNCHANGED exit
    /\ UNCHANGED <<pvars, wvars, svars, lvars, avars, env, plugin, idx, failures, run, trace, runLog>>

\* one call of orchestrator.Run from Handle: the log entry and the fresh Run
LogCall(log, workingDir) == Append(log, [dir |-> workingDir, status |-> "running"])
LogReturn(log, res) ==
    [log EXCEPT ![Len(log)].status = IF res.Success THEN "ok" ELSE "failed"]

\* line 141: result := orchestrator.Run(ctx, workingDir)
HandleRun ==
    /\ pc = "loop"
    /\ idx <= Len(dirs)
    /\ run' = RunCall(plugin.mode, dirs[idx])
    /\ trace' = <<>>
    /\ runLog' = LogCall(runLog, dirs[idx])
    /\ pc' = "judge"
    /\ UNCHANGED <<pvars, wvars, svars, lvars, avars, env, plugin, dirs, idx, failures, exit, orch>>

\* line 142: the test of the result of the call of line 141
judgedFailed(result) == ~IsNil(result) /\ ~Deref(result).Success

\* lines 142-148: on a failed result Run is called again (line 144)
HandleJudge ==
    /\ pc = "judge"
    /\ run.phase = "returned"
    /\ IF judgedFailed(run.result)
       THEN /\ run' = RunCall(plugin.mode, dirs[idx])
            /\ trace' = <<>>
            /\ runLog' = LogCall(LogReturn(runLog, Deref(run.result)), dirs[idx])
            /\ pc' = "record"
            /\ UNCHANGED idx
       ELSE /\ run' = Idle
            /\ runLog' = LogReturn(runLog, Deref(run.result))
            /\ trace' = <<>>
            /\ idx' = idx + 1
            /\ pc' = "loop"
    /\ UNCHANGED <<pvars, wvars, svars, lvars, avars, env, plugin, dirs, failures, exit, orch>>

\* a handler whose loop ends at the first failed directory
HandleRecordBreak ==
    /\ pc = "record"
    /\ run.phase = "returned"
    /\ failures' = Append(failures, Deref(run.result))
    /\ runLog' = LogReturn(runLog, Deref(run.result))
    /\ run' = Idle
    /\ trace' = <<>>
    /\ idx' = Len(dirs) + 1
    /\ pc' = "loop"
    /\ UNCHANGED <<pvars, wvars, svars, lvars, avars, env, plugin, dirs, exit, orch>>

\* line 144: failures = append(failures, *orchestrator.Run(ctx, workingDir))
HandleRecord ==
    /\ pc = "record"
    /\ run.phase = "returned"
    /\ failures' = Append(failures, Deref(run.result))
    /\ runLog' = LogReturn(runLog, Deref(run.result))
    /\ run' = Idle
    /\ trace' = <<>>
    /\ idx' = idx + 1
    /\ pc' = "loop"
    /\ UNCHANGED <<pvars, wvars, svars, lvars, avars, env, plugin, dirs, exit, orch>>

\* a handler that reports failure only from the second failed directory on
exitStatusOfSecond(fs) == IF Len(fs) > 1 THEN HandledFailure ELSE Success

\* lines 151-159: the exit status after the loop
exitStatusOf(fs) == IF Len(fs) > 0 THEN HandledFailure ELSE Success

HandleFinish ==
    /\ pc = "loop"
    /\ idx > Len(dirs)
    /\ exit' = Exit(exitStatusOf(failures), "")
    /\ pc' = "done"
    /\ UNCHANGED <<pvars, wvars, svars, lvars, avars, env, plugin, dirs, idx, failures, orch, run, trace, runLog>>

(***************************************************************************)
(* Specifications.                                                         *)
(***************************************************************************)
PartitionIdle == pItems = <<>> /\ pJobCount = 0 /\ shards = <<>>
ShardsIdle == shardCount = 0 /\ resolved = <<>>
LoadIdle == pluginsEnv = None /\ parallelEnv = NoParallelEnv /\ calls = <<>>
AdaptIdle ==
    validations = <<>> /\ outputs = <<>> /\ validatorsOut = None /\ outputersOut = None
ParseIdle == working = None /\ listing = [readErr |-> FALSE, entries |-> <<>>] /\ parsed = None
HandleIdle ==
    /\ env = [initiator |-> "ok", testMode |-> None, handlerExecPath |-> "", onPath |-> FALSE]
    /\ plugin = [mode |-> "plan", validators |-> 0, execPath |-> None]
    /\ pc = "off" /\ dirs = <<>> /\ idx = 1 /\ failures = <<>> /\ exit = None
    /\ orch = None /\ run = Idle /\ trace = <<>> /\ runLog = <<>>

\* The working specs Handle is started with; the full range is under SpecParse.
SingleWorking ==
    Some([Directory |-> Some(<<"tmp", "single">>), Directories |-> None,
          Parallelism |-> None])
ListedWorking ==
    Some([Directory |-> None,
          Directories |-> Some([ParentDirectory |-> ParentPath, Artifact |-> "",
                                NameRegex |-> ".*"]),
          Parallelism |-> None])
NoListing == [readErr |-> FALSE, entries |-> <<>>]

HandleInit ==
    /\ \/ working \in {None, SingleWorking} /\ listing = NoListing
       \/ working = ListedWorking /\ listing \in Listings
    /\ parsed = None
    /\ env \in [initiator : InitiatorOutcomes, testMode : TestModeValues,
                handlerExecPath : {""}, onPath : BOOLEAN]
    /\ plugin \in [mode : Modes, validators : 0 .. MaxValidators,
                   execPath : {None, Some("/opt/terraform")}]
    /\ ~IsNil(plugin.execPath) => ~env.onPath
    /\ pc = "start" /\ dirs = <<>> /\ idx = 1 /\ failures = <<>> /\ exit = None
    /\ orch = None /\ run = Idle /\ trace = <<>> /\ runLog = <<>>

Init == PartitionIdle /\ ShardsIdle /\ LoadIdle /\ AdaptIdle /\ HandleInit

Next ==
    \/ HandleStart
    \/ HandleRun
    \/ initSteps
    \/ planStepsPlan
    \/ planStepsShow
    \/ validateStepsNext
    \/ validateStepsEnd
    \/ applyStep
    \/ HandleJudge
    \/ HandleRecord
    \/ HandleFinish

Spec == Init /\ [][Next]_vars

PInit == PartitionInit /\ ParseIdle /\ ShardsIdle /\ LoadIdle /\ AdaptIdle /\ HandleIdle
PNext == \E i \in JobIndexes : PartitionJob(i) /\ UNCHANGED <<wvars, svars, lvars, avars, hvars>>
SpecPartition == PInit /\ [][PNext]_vars

WInit == PartitionIdle /\ ParseInit /\ ShardsIdle /\ LoadIdle /\ AdaptIdle /\ HandleIdle
WNext == ParseCall /\ UNCHANGED <<pvars, svars, lvars, avars, hvars>>
SpecParse == WInit /\ [][WNext]_vars

SInit == PartitionIdle /\ ShardsInit /\ LoadIdle /\ AdaptIdle /\ HandleIdle
SNext == \E i \in 0 .. MaxJobs - 1 : ShardParse(i) /\ UNCHANGED <<pvars, lvars, avars, hvars>>
SpecShards == SInit /\ [][SNext]_vars

LInit == PartitionIdle /\ ParseIdle /\ ShardsIdle /\ LoadInit /\ AdaptIdle /\ HandleIdle
LNext == LoadPluginCall /\ UNCHANGED <<pvars, wvars, svars, avars, hvars>>
SpecLoad == LInit /\ [][LNext]_vars

AInit == PartitionIdle /\ ParseIdle /\ ShardsIdle /\ LoadIdle /\ AdaptInit /\ HandleIdle
ANext ==
    \/ ToValidatorsCall /\ UNCHANGED <<pvars, wvars, svars, lvars, hvars>>
    \/ ToOutputersCall /\ UNCHANGED <<pvars, wvars, svars, lvars, hvars>>
SpecAdapters == AInit /\ [][ANext]_vars

(***************************************************************************)
(* Properties of Handle (under Spec).                                      *)
(***************************************************************************)
LoopRan == pc = "done" /\ ~IsNil(orch)
RunDirs == [i \in 1 .. Len(runLog) |-> runLog[i].dir]
AnyRunFailed == \E i \in 1 .. Len(runLog) : runLog[i].status = "failed"
AllRunsOk == \A i \in 1 .. Len(runLog) : runLog[i].status = "ok"

\* C1: in one Handle invocation the orchestrator is run exactly once for each
\* resolved directory, in resolved-list order, also when a run fails: the Run
\* calls made so far are a prefix of the directory list, and all of it at the end.
C1_RunOncePerDirectory ==
    /\ Len(runLog) <= Len(dirs)
    /\ RunDirs = SubSeq(dirs, 1, Len(runLog))
    /\ LoopRan => RunDirs = dirs

\* C2: once the orchestrator is constructed, Handle returns HandledFailure with a
\* nil error if some run returned a non-success result, Success if and only if
\* every run succeeded, and never UnexpectedFailure or an error.
C2_ExitStatus ==
    LoopRan =>
        /\ ~IsNil(exit)
        /\ ~Deref(exit).panic
        /\ Deref(exit).err = ""
        /\ Deref(exit).status \in {Success, HandledFailure}
        /\ AnyRunFailed => Deref(exit).status = HandledFailure
        /\ Deref(exit).status = Success <=> AllRunsOk

C2_Witness ==
    /\ LoopRan
    /\ Deref(exit).status = HandledFailure
    /\ \E i \in 1 .. Len(runLog) : runLog[i].status = "ok"
    /\ \E i \in 1 .. Len(runLog) : runLog[i].status = "failed"

\* C3: after a directory's run fails, every later directory of the resolved list
\* is still run before Handle returns.
C3_LaterDirectoriesRun ==
    LoopRan =>
        \A i \in 1 .. Len(runLog) :
            runLog[i].status = "failed" =>
                \A k \in 1 .. Len(dirs) :
                    (\E j \in 1 .. k - 1 : dirs[j] = runLog[i].dir) =>
                        \E m \in i + 1 .. Len(runLog) : runLog[m].dir = dirs[k]

C3_Witness ==
    /\ LoopRan
    /\ Len(dirs) >= 2
    /\ runLog[1].status = "failed"
    /\ runLog[1].dir = dirs[1]
    /\ runLog[Len(runLog)].dir = dirs[Len(dirs)]
    /\ Len(failures) >= 1 /\ failures[1].Stage = "showing plan"

(***************************************************************************)
(* Properties of one Run of the orchestrator (under Spec).                 *)
(***************************************************************************)
TraceOps(ops) == SelectSeq(trace, LAMBDA c : c.op \in ops)
ValidateCalls == TraceOps({"validate"})
NoChangePlan == \E i \in 1 .. Len(trace) : trace[i].op = "plan" /\ trace[i].out = "no changes"
CountFailed == Cardinality({i \in 1 .. Len(ValidateCalls) : ValidateCalls[i].out = "fail"})

\* C4: when terraform plan succeeds and reports no changes, the run ends at once
\* with success:true, stage "planning": no show, no Validator and no apply call is
\* made, in Plan mode and in Apply mode alike.
C4_NoChangeShortCircuit ==
    NoChangePlan =>
        /\ run.phase = "returned"
        /\ Deref(run.result).Success
        /\ Deref(run.result).Stage = "planning"
        /\ Deref(run.result).WorkingDir = run.dir
        /\ trace[Len(trace)].op = "plan"
        /\ TraceOps({"show", "validate", "apply"}) = <<>>

C4_Witness ==
    /\ NoChangePlan
    /\ plugin.mode = "apply"
    /\ plugin.validators >= 1
    /\ run.phase = "returned"

\* C5: when no Validator returns an execution error, every configured Validator
\* is invoked exactly once, in configured order, even after one reported
\* passed:false; the run fails with stage "validation" and an error naming N
\* issues, N the number of validators that reported passed:false, iff N > 0.
ValidationEnded ==
    /\ run.phase \in {"apply", "returned"}
    /\ \E i \in 1 .. Len(trace) : trace[i].op = "show" /\ trace[i].out = "ok"
NoValidatorError == \A i \in 1 .. Len(ValidateCalls) : ValidateCalls[i].out # "err"
FailedValidation(n) ==
    /\ run.phase = "returned"
    /\ Deref(run.result) =
          WorkspaceResult(FALSE, "validation", run.dir,
                          <<"validation failed with %d issues", n>>)

C5_AllValidatorsRun ==
    (ValidationEnded /\ NoValidatorError) =>
        /\ [i \in 1 .. Len(ValidateCalls) |-> ValidateCalls[i].arg]
              = [k \in 1 .. plugin.validators |-> <<k>>]
        /\ CountFailed > 0 => FailedValidation(CountFailed)
        /\ CountFailed = 0 =>
              (run.phase = "returned" => Deref(run.result).Stage # "validation")

C5_Witness ==
    /\ ValidationEnded
    /\ Len(ValidateCalls) = 3
    /\ ValidateCalls[1].out = "fail"
    /\ ValidateCalls[2].out = "pass"
    /\ ValidateCalls[3].out = "fail"
    /\ FailedValidation(2)

\* C6: in Apply mode terraform apply is invoked only after init, plan (reporting
\* changes), plan materialisation and every Validator succeeded in the same run,
\* and it is given the plan file that run's plan step wrote, <dir>/plan.binary.
C6_ApplyAfterReview ==
    \A i \in 1 .. Len(trace) :
        trace[i].op = "apply" =>
            /\ plugin.mode = "apply"
            /\ i = 4 + plugin.validators
            /\ i = Len(trace)
            /\ trace[1] = Call("init", run.dir, "ok")
            /\ trace[2] = Call("plan", Append(run.dir, "plan.binary"), "changes")
            /\ trace[3] = Call("show", Append(run.dir, "plan.binary"), "ok")
            /\ \A k \in 1 .. plugin.validators : trace[3 + k] = Call("validate", <<k>>, "pass")
            /\ trace[i].arg = trace[2].arg

C6_Witness ==
    /\ Len(trace) >= 5
    /\ trace[Len(trace)].op = "apply"
    /\ trace[Len(trace)].out = "ok"
    /\ run.phase = "returned"
    /\ Deref(run.result).Stage = "apply"

(***************************************************************************)
(* Properties of partition (under SpecPartition).                          *)
(***************************************************************************)
ValidJobs == 0 .. pJobCount - 1
Computed(i) == ~IsNil(shards[i])
ShardOut(i) == Deref(shards[i]).out
AllComputed == pJobCount >= 1 /\ \A i \in ValidJobs : Computed(i)
Range(f) == {f[k] : k \in DOMAIN f}

\* C7: for every sequence of length n >= 0 and every job count c >= 1, the
\* partitions of jobs 0..c-1 concatenated in order of job index are the original
\* sequence, and every item is in exactly one partition.
C7_PartitionComplete ==
    AllComputed =>
        /\ \A i \in ValidJobs : ~Deref(shards[i]).panic
        /\ Concat([k \in 1 .. pJobCount |-> ShardOut(k - 1)]) = pItems
        /\ \A x \in Range(pItems) :
              Cardinality({i \in ValidJobs : x \in Range(ShardOut(i))}) = 1

C7_Witness ==
    /\ AllComputed
    /\ pJobCount = 3
    /\ Len(pItems) = 4
    /\ ShardOut(0) = <<1, 2>> /\ ShardOut(1) = <<3>> /\ ShardOut(2) = <<4>>

\* C8: for every n >= 0 and c >= 1, jobs 0..(n mod c)-1 receive floor(n/c)+1 items
\* and the other jobs floor(n/c) items, so the sizes differ by at most 1.
C8_PartitionBalance ==
    pJobCount >= 1 =>
        /\ \A i \in ValidJobs :
              Computed(i) =>
                  Len(ShardOut(i)) =
                      IF i < Len(pItems) % pJobCount
                      THEN (Len(pItems) \div pJobCount) + 1
                      ELSE Len(pItems) \div pJobCount
        /\ \A i, j \in ValidJobs :
              (Computed(i) /\ Computed(j)) =>
                  Len(ShardOut(i)) - Len(ShardOut(j)) \in {-1, 0, 1}

C8_Witness ==
    /\ pJobCount = 3
    /\ Len(pItems) = 4
    /\ Computed(0) /\ Len(ShardOut(0)) = 2
    /\ Computed(2) /\ Len(ShardOut(2)) = 1

\* C9: partition returns an empty result, without failing and without indexing
\* outside items, whenever c <= 0, i < 0 or i >= c, for any items.
C9_PartitionDegenerate ==
    \A i \in DOMAIN shards :
        (Computed(i) /\ (pJobCount <= 0 \/ i < 0 \/ i >= pJobCount)) =>
            (~Deref(shards[i]).panic /\ ShardOut(i) = <<>>)

C9_Witness ==
    /\ Len(pItems) >= 3
    /\ pJobCount = 2
    /\ Computed(2) /\ ShardOut(2) = <<>>
    /\ Computed(-1) /\ ShardOut(-1) = <<>>

(***************************************************************************)
(* Properties of Working.Parse (under SpecParse).                          *)
(***************************************************************************)
BothSet(par) == ~IsNil(par.ParallelJob) /\ ~IsNil(par.ParallelJobCount)
HasParallelism ==
    /\ ~IsNil(working)
    /\ ~IsNil(Deref(working).Parallelism)
    /\ BothSet(Deref(Deref(working).Parallelism))
WithoutParallelism == Some([Deref(working) EXCEPT !.Parallelism = None])
\* what the claim expects: partition(L, i, c) of the list L resolved without parallelism
ShardOfUnsharded ==
    LET L == WorkingParse(WithoutParallelism, listing)
        par == Deref(Deref(working).Parallelism)
    IN IF L.kind # "ok" THEN L
       ELSE Ok(partition(L.dirs, Deref(par.ParallelJob), Deref(par.ParallelJobCount)).out)

ShardRan(i) == i \in DOMAIN resolved /\ ~IsNil(resolved[i])
ShardList(i) == Deref(resolved[i]).dirs
AllShardsRan == \A i \in DOMAIN resolved : ShardRan(i)
Disjoint(a, b) == Range(a) \cap Range(b) = {}
PlanFiles(ds) == {planFileOf(ds[k]) : k \in DOMAIN ds}

Succeeded(c) == c.err = "" /\ ~IsNil(c.plugin)
LoadedWorking(c) == IF Succeeded(c) THEN Deref(c.plugin).Working ELSE None
LoadedParallelism(c) ==
    IF IsNil(LoadedWorking(c)) THEN None ELSE Deref(LoadedWorking(c)).Parallelism
HasJob(par) == ~IsNil(par) /\ ~IsNil(Deref(par).ParallelJob)
HasCount(par) == ~IsNil(par) /\ ~IsNil(Deref(par).ParallelJobCount)
JobOf(par) == Deref(Deref(par).ParallelJob)
CountOf(par) == Deref(Deref(par).ParallelJobCount)
Calls == 1 .. Len(calls)

\* C12: a configuration LoadPlugin returns with both job index and job count
\* present has job index < job count, strictly.
C12_IndexBelowCount ==
    \A n \in Calls :
        LET par == LoadedParallelism(calls[n])
        IN (HasJob(par) /\ HasCount(par)) => JobOf(par) < CountOf(par)

\* C13: a configuration LoadPlugin returns has both job index and job count
\* or neither: index without count and count without index are both rejected,
\* whether the value came from the environment or from the fragment.
C13_BothOrNeither ==
    \A n \in Calls :
        LET par == LoadedParallelism(calls[n])
        IN Succeeded(calls[n]) => (HasJob(par) <=> HasCount(par))

\* C14: a configuration LoadPlugin returns with a working section has directory
\* or directories set in it.
C14_DirectoryOrDirectories ==
    \A n \in Calls :
        LET w == LoadedWorking(calls[n])
        IN ~IsNil(w) => (~IsNil(Deref(w).Directory) \/ ~IsNil(Deref(w).Directories))

\* the steps of LoadPlugin that come before validation, told from the inputs
EnvParses ==
    parallelEnv.job.kind # "not-a-number" /\ parallelEnv.count.kind # "not-a-number"
MatchedObject(c) == ~IsNil(c.matched) /\ Deref(c.matched).shape = "object"
MatchedWorking(c) ==
    IF MatchedObject(c) /\ ~IsNil(Deref(c.matched).working)
    THEN Deref(Deref(c.matched).working) ELSE None
\* the fragment sets both directory and directories in its working section
SetsBothForms(c) ==
    /\ ~IsNil(MatchedWorking(c))
    /\ ~IsNil(Deref(MatchedWorking(c)).directory)
    /\ ~IsNil(Deref(MatchedWorking(c)).directories)
\* the fragment sets both parent_directory and artifact in its directories section
SetsBothSources(c) ==
    /\ ~IsNil(MatchedWorking(c))
    /\ ~IsNil(Deref(MatchedWorking(c)).directories)
    /\ ~IsNil(Deref(Deref(MatchedWorking(c)).directories).parent_directory)
    /\ ~IsNil(Deref(Deref(MatchedWorking(c)).directories).artifact)

\* C15: when LoadPlugin reaches validation (the parallel environment values are
\* integers or empty) with a fragment whose working section sets both directory
\* and directories, or whose directories section sets both parent_directory and
\* artifact, it fails with "failed to validate config" and returns no Plugin.
C15_MutualExclusion ==
    \A n \in Calls :
        (EnvParses /\ (SetsBothForms(calls[n]) \/ SetsBothSources(calls[n]))) =>
            /\ calls[n].err = "failed to validate config"
            /\ IsNil(calls[n].plugin)

\* both exclusions are met in one fragment, with paths that exist, so that only
\* the excluded_with tags can be what fails
C15_Witness ==
    \E n \in Calls :
        /\ EnvParses
        /\ SetsBothForms(calls[n])
        /\ SetsBothSources(calls[n])
        /\ Deref(MatchedWorking(calls[n])).directory = Some(<<"tmp", "single">>)
        /\ Deref(calls[n].matched).mode = Some("plan")
        /\ calls[n].err = "failed to validate config"

\* the environment supplies both the job index and the job count
EnvBoth == parallelEnv.job.kind = "int" /\ parallelEnv.count.kind = "int"
EnvParallelism ==
    Some([ParallelJob |-> Some(parallelEnv.job.n),
          ParallelJobCount |-> Some(parallelEnv.count.n)])
WorkingIsNull(c) ==
    /\ MatchedObject(c)
    /\ ~IsNil(Deref(c.matched).working)
    /\ IsNil(Deref(Deref(c.matched).working))
\* the fragment has a parallelism key in its working object
MentionsParallelism(c) ==
    /\ ~IsNil(MatchedWorking(c))
    /\ ~IsNil(Deref(MatchedWorking(c)).parallelism)

\* C16 as stated: when the environment supplies job index and job count and the
\* fragment has no parallelism key, the loaded configuration carries the job
\* index and job count of the environment.
C16_EnvKeptWhenNotMentioned ==
    \A n \in Calls :
        (EnvBoth /\ Succeeded(calls[n]) /\ ~MentionsParallelism(calls[n])) =>
            LoadedParallelism(calls[n]) = EnvParallelism

\* C16 as amended: the same, for a fragment that does not set working to null;
\* a fragment with "working": null loads with no working section at all, the
\* job index and job count of the environment gone with it.
C16_EnvKeptUnlessWorkingNull ==
    \A n \in Calls :
        (EnvBoth /\ Succeeded(calls[n]) /\ ~MentionsParallelism(calls[n])) =>
            IF WorkingIsNull(calls[n])
            THEN IsNil(LoadedWorking(calls[n]))
            ELSE LoadedParallelism(calls[n]) = EnvParallelism

\* a fragment that sets another field of working, loaded with the environment's
\* job index and job count
C16_Witness ==
    \E n \in Calls :
        /\ parallelEnv = [job |-> EnvInt(1), count |-> EnvInt(2)]
        /\ Succeeded(calls[n])
        /\ ~MentionsParallelism(calls[n])
        /\ ~IsNil(LoadedWorking(calls[n]))
        /\ Deref(LoadedWorking(calls[n])).Directory = Some(<<"tmp", "single">>)
        /\ LoadedParallelism(calls[n]) = EnvParallelism

\* the parallelism object of the fragment, <<>> when there is none
MatchedParallelism(c) ==
    IF MentionsParallelism(c) THEN Deref(Deref(MatchedWorking(c)).parallelism) ELSE None
JsonJob(c) ==
    IF IsNil(MatchedParallelism(c)) THEN None ELSE Deref(MatchedParallelism(c)).parallel_job
JsonCount(c) ==
    IF IsNil(MatchedParallelism(c)) THEN None
    ELSE Deref(MatchedParallelism(c)).parallel_job_count

\* C17: when the environment and the fragment both give the job index, the
\* loaded configuration carries the job index of the fragment; the same for the
\* job count.
C17_JsonWins ==
    \A n \in Calls :
        Succeeded(calls[n]) =>
            /\ (parallelEnv.job.kind = "int" /\ ~IsNil(JsonJob(calls[n]))) =>
                   Deref(LoadedParallelism(calls[n])).ParallelJob = JsonJob(calls[n])
            /\ (parallelEnv.count.kind = "int" /\ ~IsNil(JsonCount(calls[n]))) =>
                   Deref(LoadedParallelism(calls[n])).ParallelJobCount
                       = JsonCount(calls[n])

\* the fragment overrides the job index and leaves the job count to the environment
C17_Witness ==
    \E n \in Calls :
        /\ parallelEnv = [job |-> EnvInt(0), count |-> EnvInt(2)]
        /\ JsonJob(calls[n]) = Some(1)
        /\ JsonCount(calls[n]) = None
        /\ Succeeded(calls[n])
        /\ LoadedParallelism(calls[n])
               = Some([ParallelJob |-> Some(1), ParallelJobCount |-> Some(2)])

\* the array LoadPlugin searches, when BUILDKITE_PLUGINS holds one
HoldsArray == ~IsNil(pluginsEnv) /\ Deref(pluginsEnv).kind = "array"
Entries == IF HoldsArray THEN Deref(pluginsEnv).entries ELSE <<>>
Matches(entry) == {kv \in entry : HasPrefix(getPluginName(kv.key), PluginName)}
MatchingEntries == {i \in 1 .. Len(Entries) : Matches(Entries[i]) # {}}
FirstMatching == CHOOSE i \in MatchingEntries : \A j \in MatchingEntries : i <= j
OneKeyMaps == \A i \in 1 .. Len(Entries) : Cardinality(Entries[i]) = 1

\* what is said of one call: the fragment comes from the first entry, in array
\* order, that has a matching key; without such an entry the call fails
FromFirstMatching(c) ==
    IF MatchingEntries = {}
    THEN c.err = "could not initialize plugin" /\ IsNil(c.matched) /\ IsNil(c.plugin)
    ELSE /\ ~IsNil(c.matched)
         /\ \E kv \in Matches(Entries[FirstMatching]) : Deref(c.matched) = kv.fragment

\* C18: every call finds the fragment of the first matching entry of the array,
\* or fails with "could not initialize plugin" when no entry matches, and two
\* calls on the same array find the same fragment.
C18_FirstMatchSameEveryCall ==
    HoldsArray =>
        /\ \A n \in Calls : FromFirstMatching(calls[n])
        /\ \A n \in Calls : \A k \in Calls : calls[n].matched = calls[k].matched

\* the part of C18 that holds: the search is in array order
FirstMatchEveryCall == HoldsArray => \A n \in Calls : FromFirstMatching(calls[n])
\* and the whole of it on arrays of one-key maps
FirstMatchOnOneKeyMaps == OneKeyMaps => C18_FirstMatchSameEveryCall

\* the configuration the matched fragment and the environment add up to
Overlaid(c) == Deref(parseRawPlugin(Deref(c.matched), parallelEnv).plugin)

\* the error of the first step that fails, the steps taken in the order: read the
\* plugins variable, find the entry, read the parallel environment variables,
\* decode the fragment, validate
FirstFailingStep(c) ==
    IF ~HoldsArray THEN "failed to parse plugin configuration"
    ELSE IF MatchingEntries = {} THEN "could not initialize plugin"
    ELSE IF ~EnvParses THEN "failed to parse environment variables"
    ELSE IF ~MatchedObject(c) THEN "failed to parse plugin configuration"
    ELSE IF validateStruct(Overlaid(c)) # {} THEN "failed to validate config"
    ELSE ""

\* C19: every LoadPlugin call returns the error of the first failing step, and
\* no Plugin with it; it returns a Plugin when no step fails.
C19_FirstFailingStep ==
    \A n \in Calls :
        /\ calls[n].err = FirstFailingStep(calls[n])
        /\ IsNil(calls[n].plugin) <=> calls[n].err # ""

\* two steps would fail (the environment value is not an integer, the fragment
\* does not decode) and the error is that of the earlier one
C19_Witness ==
    \E n \in Calls :
        /\ ~EnvParses
        /\ ~IsNil(calls[n].matched)
        /\ Deref(calls[n].matched) = Mistyped
        /\ calls[n].err = "failed to parse environment variables"
        /\ IsNil(calls[n].plugin)

(***************************************************************************)
(* Test mode (under Spec).                                                 *)
(***************************************************************************)
\* the flag is written "true", "1" or "yes" in some mix of cases
Truthy == env.testMode \in {Some("true"), Some("TRUE"), Some("1"), Some("Yes")}
Payload == ParsePlugin(env, working, listing)

\* C20: when ParsePlugin succeeds and the test-mode flag is truthy, no
\* orchestrator is ever constructed and no directory is ever run, and Handle
\* returns TestModeEarlyExit, whatever the resolved directories are and whether
\* or not a terraform executable can be found.
C20_TestModeEarlyExit ==
    (Payload.kind = "ok" /\ Truthy) =>
        /\ IsNil(orch)
        /\ runLog = <<>>
        /\ trace = <<>>
        /\ run = Idle
        /\ pc = "done" => exit = Exit(TestModeEarlyExit, "")

\* directories were resolved and no terraform executable exists, the flag is
\* written in capitals, and Handle has returned 10
C20_Witness ==
    /\ Payload.kind = "ok"
    /\ Len(Payload.dirs) = 2
    /\ env.testMode = Some("TRUE")
    /\ IsNil(NewOrchestrator(plugin, env))
    /\ pc = "done"
    /\ exit = Exit(TestModeEarlyExit, "")

\* the same with nothing to run
C20_WitnessEmpty ==
    /\ Payload.kind = "ok"
    /\ Len(Payload.dirs) = 0
    /\ env.testMode = Some("Yes")
    /\ pc = "done"
    /\ exit = Exit(TestModeEarlyExit, "")

(***************************************************************************)
(* Properties of the start of Handle (under Spec).                         *)
(***************************************************************************)
NothingToRun == Payload.kind = "ok" /\ ~Truthy /\ Len(Payload.dirs) = 0
NoTerraformCall == runLog = <<>> /\ trace = <<>> /\ run = Idle

\* C21: when test mode is off and the resolved directory list is empty, Handle
\* returns NoWorkingDirectories (3) with a nil error, the orchestrator is never
\* constructed and terraform is never invoked.
C21_NoWorkingDirectories ==
    NothingToRun =>
        /\ IsNil(orch)
        /\ NoTerraformCall
        /\ pc = "done" => exit = Exit(NoWorkingDirectories, "")

\* the parent directory holds no matching directory, a terraform executable is
\* on the search path, and Handle has returned 3
C21_Witness ==
    /\ NothingToRun
    /\ working = ListedWorking
    /\ ~IsNil(NewOrchestrator(plugin, env))
    /\ pc = "done"
    /\ exit = Exit(NoWorkingDirectories, "")

\* the same with no working section and no terraform executable anywhere
C21_WitnessAbsent ==
    /\ NothingToRun
    /\ working = None
    /\ IsNil(NewOrchestrator(plugin, env))
    /\ pc = "done"
    /\ exit = Exit(NoWorkingDirectories, "")

ReachesConstruction == Payload.kind = "ok" /\ ~Truthy /\ Len(Payload.dirs) > 0
NoExecutable == IsNil(plugin.execPath) /\ env.handlerExecPath = "" /\ ~env.onPath

\* C22: when no terraform executable path is configured and none is on the
\* search path, the construction of the orchestrator fails and Handle returns
\* UnexpectedFailure (1) with the error, no directory being run; and an
\* orchestrator that was constructed looked the executable up at most once,
\* at construction, however many directories have been run since.
C22_ExecutableLookup ==
    /\ (ReachesConstruction /\ NoExecutable) =>
          /\ IsNil(orch)
          /\ NoTerraformCall
          /\ pc = "done" => exit = Exit(UnexpectedFailure, "terraform binary not found in PATH")
    /\ ~IsNil(orch) =>
          /\ orch = NewOrchestrator(plugin, env)
          /\ Deref(orch).tExecPath # ""
          /\ Deref(orch).lookups = IF IsNil(plugin.execPath) THEN 1 ELSE 0

\* two directories were resolved, nothing is configured and nothing is on the
\* search path: Handle has returned 1 and ran neither directory
C22_Witness ==
    /\ ReachesConstruction /\ NoExecutable
    /\ Len(Payload.dirs) = 2
    /\ pc = "done"
    /\ exit = Exit(UnexpectedFailure, "terraform binary not found in PATH")
    /\ runLog = <<>>

\* two directories have been run with the executable found by one lookup
C22_WitnessOneLookup ==
    /\ LoopRan
    /\ Len(dirs) = 2
    /\ Len(runLog) >= 2
    /\ Deref(orch).lookups = 1

ResolutionError == WorkingParse(working, listing).kind = "error"

\* the error ParsePlugin returns: that of the first step that fails
InitiationError ==
    CASE env.initiator = "load error" -> "failed to load plugin"
      [] env.initiator = "outputs error" -> "failed to convert outputs"
      [] env.initiator = "validations error" -> "failed to convert validations"
      [] OTHER -> "failed to parse working directories"

\* C23: whenever configuration loading, outputer construction, validator
\* construction or working-directory resolution returns an error, no
\* orchestrator is ever constructed, no terraform init, plan or apply is ever
\* invoked for any directory, and Handle returns UnexpectedFailure with the
\* error of the first step that failed.
C23_InitiationFailure ==
    (env.initiator # "ok" \/ ResolutionError) =>
        /\ IsNil(orch)
        /\ NoTerraformCall
        /\ pc = "done" => exit = Exit(UnexpectedFailure, InitiationError)

\* the directories cannot be listed, a terraform executable is on the search
\* path, and Handle has returned 1 with the resolution error
C23_Witness ==
    /\ env.initiator = "ok"
    /\ ResolutionError
    /\ ~IsNil(NewOrchestrator(plugin, env))
    /\ pc = "done"
    /\ exit = Exit(UnexpectedFailure, "failed to parse working directories")

\* the validators cannot be constructed while two directories are there to run
C23_WitnessValidators ==
    /\ env.initiator = "validations error"
    /\ WorkingParse(working, listing).kind = "ok"
    /\ Len(WorkingParse(working, listing).dirs) = 2
    /\ ~Truthy
    /\ pc = "done"
    /\ exit = Exit(UnexpectedFailure, "failed to convert validations")

(***************************************************************************)
(* Properties of the outcomes of Working.Parse (under SpecParse).          *)
(***************************************************************************)
Present == ~IsNil(working)
HasDirectory ==
    Present /\ ~IsNil(Deref(working).Directory) /\ Deref(Deref(working).Directory) # <<>>
HasDirectories == Present /\ ~IsNil(Deref(working).Directories)
ParentSet == HasDirectories /\ Deref(Deref(working).Directories).ParentDirectory # <<>>
ArtifactSet == HasDirectories /\ Deref(Deref(working).Directories).Artifact # ""
ReturnsError == Deref(parsed).kind = "error" /\ Deref(parsed).dirs = <<>>

\* C24 as stated: Parse returns an empty list and no error when the working
\* spec is absent; it returns an error and no list when the spec is present
\* with neither a non-empty directory nor directories, when directories has
\* neither parent_directory nor artifact, and when directories.artifact is set.
C24_ParseOutcomes ==
    ~IsNil(parsed) =>
        /\ ~Present => Deref(parsed) = Ok(<<>>)
        /\ (Present /\ ~HasDirectory /\ ~HasDirectories) => ReturnsError
        /\ (HasDirectories /\ ~ParentSet /\ ~ArtifactSet) => ReturnsError
        /\ ArtifactSet => ReturnsError

\* C24 as amended: Parse returns an empty list and no error when the working
\* spec is absent.  With no non-empty directory it returns an error and no
\* list when directories is absent too, when directories has neither
\* parent_directory nor artifact, and when directories has an artifact and no
\* parent_directory.  A non-empty directory is returned alone whatever the
\* directories section holds, and a parent_directory is listed whether or not
\* an artifact is set beside it.
C24_ParseOutcomesInOrder ==
    ~IsNil(parsed) =>
        /\ ~Present => Deref(parsed) = Ok(<<>>)
        /\ (Present /\ ~HasDirectory /\ ~HasDirectories) =>
              Deref(parsed) = Err("no valid working directory configuration found")
        /\ (~HasDirectory /\ HasDirectories /\ ~ParentSet /\ ~ArtifactSet) =>
              Deref(parsed) = Err("no valid working directory configuration found")
        /\ (~HasDirectory /\ ArtifactSet /\ ~ParentSet) =>
              Deref(parsed) = Err("artifact handling not implemented yet")
        /\ HasDirectory => Deref(parsed) = Ok(<<Deref(Deref(working).Directory)>>)
        /\ (~HasDirectory /\ ParentSet /\ ArtifactSet) =>
              Deref(parsed) =
                  WorkingParse(Some([Deref(working) EXCEPT !.Directories =
                                        Some([Deref(Deref(working).Directories)
                                                 EXCEPT !.Artifact = ""])]),
                               listing)

\* an artifact alone was refused, with a directory that is set and empty
C24_Witness ==
    /\ ~IsNil(parsed)
    /\ Present /\ ~IsNil(Deref(working).Directory) /\ ~HasDirectory
    /\ ArtifactSet /\ ~ParentSet
    /\ Deref(parsed) = Err("artifact handling not implemented yet")

\* an artifact beside a parent directory did not stop the listing
C24_WitnessListed ==
    /\ ~IsNil(parsed)
    /\ ~HasDirectory /\ ArtifactSet /\ ParentSet
    /\ Deref(parsed).kind = "ok"
    /\ Len(Deref(parsed).dirs) = 2

(***************************************************************************)
(* Properties of the states of one Run (under Spec).  The states of the    *)
(* run of one directory are Init, Plan (terraform plan, then terraform     *)
(* show of the plan file), Validate, Apply and Done.                       *)
(***************************************************************************)
StateOf(phase) ==
    CASE phase = "init" -> "Init"
      [] phase \in {"plan", "show"} -> "Plan"
      [] phase = "validate" -> "Validate"
      [] phase = "apply" -> "Apply"
      [] phase = "returned" -> "Done"
      [] OTHER -> "None"

\* the state a run may enter from each state while it goes well
NextState(state) ==
    CASE state = "Init" -> {"Plan"}
      [] state = "Plan" -> {"Plan", "Validate"}
      [] state = "Validate" -> {"Validate", "Apply"}
      [] OTHER -> {}

LastCall == trace[Len(trace)]
AllWentWell ==
    /\ Len(trace) >= 3
    /\ \A i \in 1 .. Len(trace) : trace[i].out \in {"ok", "changes", "pass"}

\* one step of the run in progress: it enters the next state of the order, or
\* Done; and when the call it made failed it enters Done with success=false
RunStepInOrder ==
    (run.phase \notin {"idle", "returned"} /\ run' # run) =>
        /\ run'.dir = run.dir
        /\ StateOf(run'.phase) \in NextState(StateOf(run.phase)) \cup {"Done"}
        /\ StateOf(run'.phase) = "Apply" => plugin.mode = "apply"
        /\ (Len(trace') > Len(trace) /\ trace'[Len(trace')].out = "err") =>
              /\ run'.phase = "returned"
              /\ ~Deref(run'.result).Success

PlanModeNoApply ==
    plugin.mode = "plan" =>
        /\ run.phase # "apply"
        /\ TraceOps({"apply"}) = <<>>
        /\ (run.phase = "returned" /\ AllWentWell) =>
              Deref(run.result) = WorkspaceResult(TRUE, "planning", run.dir, <<>>)

\* C25: in Plan mode terraform apply is never invoked for any directory; a run
\* whose init, plan and validation succeed ends in Done with success:true and
\* stage "planning"; and the states of one directory are visited only in the
\* order Init, Plan, Validate, (Apply), Done, a failure ending the run at once.
C25_PlanNeverApplies == []PlanModeNoApply /\ [][RunStepInOrder]_vars

\* a Plan-mode run of a changed plan passed two validators and is Done
C25_Witness ==
    /\ plugin.mode = "plan"
    /\ plugin.validators = 2
    /\ run.phase = "returned"
    /\ AllWentWell
    /\ Len(trace) = 5
    /\ LastCall = Call("validate", <<2>>, "pass")
    /\ Deref(run.result) = WorkspaceResult(TRUE, "planning", run.dir, <<>>)

\* C26: when a Validator returns an execution error, validation stops at once:
\* it is the last call of the run, so no Validator configured after it and no
\* terraform apply is invoked, and the run has returned success:false with
\* stage "validation", however many earlier validators reported passed:false.
C26_ValidatorErrorStops ==
    \A i \in 1 .. Len(trace) :
        (trace[i].op = "validate" /\ trace[i].out = "err") =>
            /\ i = Len(trace)
            /\ Len(ValidateCalls) = trace[i].arg[1]
            /\ TraceOps({"apply"}) = <<>>
            /\ run.phase = "returned"
            /\ Deref(run.result) =
                  WorkspaceResult(FALSE, "validation", run.dir, <<"validation failed">>)

\* in Apply mode the first of three validators reported passed:false and the
\* second returned an error: the third was not invoked
C26_Witness ==
    /\ plugin.mode = "apply"
    /\ plugin.validators = 3
    /\ Len(ValidateCalls) = 2
    /\ ValidateCalls[1].out = "fail"
    /\ ValidateCalls[2].out = "err"
    /\ run.phase = "returned"
    /\ Deref(run.result).Stage = "validation"
    /\ ~Deref(run.result).Success

FailureStages == {"initialization", "planning", "showing plan", "validation", "applying"}

\* the step of the run in progress that failed first, "none" when none did
FirstFailedStep ==
    IF trace = <<>> THEN "initialization"
    ELSE IF CountFailed > 0 /\ LastCall.out # "err" THEN "validation"
    ELSE IF LastCall.out # "err" THEN "none"
    ELSE CASE LastCall.op = "init" -> "initialization"
           [] LastCall.op = "plan" -> "planning"
           [] LastCall.op = "show" -> "showing plan"
           [] LastCall.op = "validate" -> "validation"
           [] LastCall.op = "apply" -> "applying"

\* C27: every WorkspaceResult returned by Run carries the working directory it
\* was run for, and either success=false with the stage naming the first step
\* that failed, one of "initialization", "planning", "showing plan",
\* "validation", "applying", or success=true with stage "planning" (Plan mode,
\* or a no-change plan in either mode) or "apply" (Apply mode after a
\* successful apply).
C27_ResultStage ==
    run.phase = "returned" =>
        LET res == Deref(run.result)
        IN /\ res.WorkingDir = dirs[idx]
           /\ res.WorkingDir = runLog[Len(runLog)].dir
           /\ IF res.Success
              THEN /\ FirstFailedStep = "none"
                   /\ \/ res.Stage = "planning" /\ (plugin.mode = "plan" \/ NoChangePlan)
                      \/ /\ res.Stage = "apply"
                         /\ plugin.mode = "apply"
                         /\ LastCall = Call("apply", planFileOf(dirs[idx]), "ok")
              ELSE /\ res.Stage \in FailureStages
                   /\ res.Stage = FirstFailedStep

\* the run of the second directory failed at terraform show
C27_Witness ==
    /\ run.phase = "returned"
    /\ idx = 2
    /\ Deref(run.result).WorkingDir = dirs[2]
    /\ ~Deref(run.result).Success
    /\ Deref(run.result).Stage = "showing plan"

\* an Apply-mode run ended with a successful apply, and another with no change
C27_WitnessApply ==
    /\ run.phase = "returned"
    /\ Deref(run.result).Success
    /\ Deref(run.result).Stage = "apply"

C27_WitnessNoChange ==
    /\ run.phase = "returned"
    /\ plugin.mode = "apply"
    /\ Deref(run.result).Success
    /\ Deref(run.result).Stage = "planning"

(***************************************************************************)
(* Properties of the failure list of Handle (under Spec).                  *)
(***************************************************************************)
\* C28: at every point of the handler loop each record of the failure list has
\* success=false and is the result of the one run of its directory that the
\* handler judged as failed; a successful result is never recorded as a failure.
C28_FailuresAreFailedRuns ==
    \A k \in 1 .. Len(failures) :
        /\ ~failures[k].Success
        /\ failures[k].WorkingDir \in Range(dirs)
        /\ Cardinality({i \in 1 .. Len(runLog) : runLog[i].dir = failures[k].WorkingDir}) = 1

\* the failure list holds a successful result
C28_SuccessRecorded ==
    /\ pc = "done"
    /\ Len(failures) = 1
    /\ failures[1].Success
    /\ failures[1].Stage = "planning"
    /\ exit = Exit(HandledFailure, "")

(***************************************************************************)
(* Properties of ToValidators and ToOutputers (under SpecAdapters).        *)
(***************************************************************************)
NoDiscriminant(structs, field) == {i \in 1 .. Len(structs) : IsNil(structs[i][field])}

\* what a conversion has to return for a list of structs: an error when some
\* struct has no discriminant, else as many adapters as structs, the k-th
\* being made of the configuration of the k-th struct
ConvertedInOrder(out, structs, field) ==
    IF NoDiscriminant(structs, field) # {}
    THEN out.kind = "error" /\ out.list = <<>>
    ELSE /\ out.kind = "ok"
         /\ Len(out.list) = Len(structs)
         /\ \A k \in 1 .. Len(structs) : out.list[k].config = Deref(structs[k][field])

\* C29: ToValidators, and likewise ToOutputers, returns either an error, when
\* some spec of the list has none of the recognized discriminants populated,
\* or a list of exactly one adapter per spec in configured order; a spec
\* without a discriminant is never passed over, and an empty list of specs
\* gives an empty result and no error.
C29_OneAdapterPerSpec ==
    /\ ~IsNil(validatorsOut) =>
          /\ ConvertedInOrder(Deref(validatorsOut), validations, "Opa")
          /\ validations = <<>> => Deref(validatorsOut) = Adapted(<<>>)
    /\ ~IsNil(outputersOut) =>
          /\ ConvertedInOrder(Deref(outputersOut), outputs, "BuildkiteAnnotation")
          /\ outputs = <<>> => Deref(outputersOut) = Adapted(<<>>)

\* the second of three validations has no discriminant: an error, no list
C29_Witness ==
    /\ ~IsNil(validatorsOut)
    /\ Len(validations) = 3
    /\ NoDiscriminant(validations, "Opa") = {2}
    /\ Deref(validatorsOut).kind = "error"

\* two different validations and two different outputs, converted in order
C29_WitnessInOrder ==
    /\ ~IsNil(validatorsOut) /\ ~IsNil(outputersOut)
    /\ Len(validations) = 2 /\ validations[1] # validations[2]
    /\ Len(outputs) = 2 /\ outputs[1] # outputs[2]
    /\ Deref(validatorsOut).kind = "ok" /\ Len(Deref(validatorsOut).list) = 2
    /\ Deref(outputersOut).kind = "ok" /\ Len(Deref(outputersOut).list) = 2

\* nothing configured: both conversions gave an empty result and no error
C29_WitnessEmpty ==
    /\ validations = <<>> /\ outputs = <<>>
    /\ validatorsOut = Some(Adapted(<<>>))
    /\ outputersOut = Some(Adapted(<<>>))

(***************************************************************************)
(* Properties of Working.Parse on what LoadPlugin returns (under SpecLoad). *)
(***************************************************************************)
\* C30: for every configuration LoadPlugin accepts, Working.Parse ends with a
\* list or an error value, whatever the parent directory holds: it never reads
\* a job index or a job count that is absent, so a parallelism section present
\* with one or both fields unset beside a directories section does not crash
\* the resolution.
C30_ParseNeverCrashes ==
    \A n \in Calls :
        Succeeded(calls[n]) =>
            \A fs \in Listings :
                WorkingParse(LoadedWorking(calls[n]), fs).kind \in {"ok", "error"}

\* LoadPlugin accepted a directories section beside a job count without a job
\* index, both from the fragment, and Working.Parse on it dereferences nil
C30_CrashOnCountOnly ==
    \E n \in Calls :
        /\ Succeeded(calls[n])
        /\ parallelEnv = NoParallelEnv
        /\ ~IsNil(LoadedWorking(calls[n]))
        /\ ~IsNil(Deref(LoadedWorking(calls[n])).Directories)
        /\ ~HasJob(LoadedParallelism(calls[n]))
        /\ HasCount(LoadedParallelism(calls[n]))
        /\ WorkingParse(LoadedWorking(calls[n]), NoListing) = Panic

\* the same with a parallelism section that sets neither field
C30_CrashOnEmptySection ==
    \E n \in Calls :
        /\ Succeeded(calls[n])
        /\ ~IsNil(LoadedParallelism(calls[n]))
        /\ ~HasJob(LoadedParallelism(calls[n]))
        /\ ~HasCount(LoadedParallelism(calls[n]))
        /\ WorkingParse(LoadedWorking(calls[n]), NoListing) = Panic

====
